---- MODULE Spec2Model ----
(***************************************************************************)
(* Model of the background logic of zen_auto_inactive_tabs                 *)
(* (src/popup/popup.js, lines 79-392) and of the popup's settings form     *)
(* (lines 1-77), together with the browser host it talks to: the tab       *)
(* strip, the tab events, storage.local and the interval timers.           *)
(*                                                                         *)
(* Time is Date.now() in milliseconds.  Every await of the source is a     *)
(* point where other handlers may run: an action of this module is one     *)
(* run of a handler from one await to the next.                            *)
(***************************************************************************)
EXTENDS Integers, Sequences, FiniteSets, TLC

\* ------------------------------------------------------------- bounds
MaxTabs == 3         \* tab ids 1..MaxTabs
MaxClock == 1        \* the clock advances MaxClock times, ClockStep ms each
MaxPasses == 2       \* scheduled scan passes that may be in progress at once
MaxTimers == 2       \* interval timer handles the host can have handed out
MaxAudible == 1      \* tabs that may be playing audio at once
MaxChanges == 1      \* storage.onChanged notifications that may be queued
StartTime == 500000  \* Date.now() of the initial state, in ms
ClockStep == 30000   \* ms between two readings of the clock

Tabs == 1..MaxTabs
Passes == 1..MaxPasses
TimerIds == 1..MaxTimers

\* ------------------------------------------------------------- settings
\* DEFAULT_SETTINGS (lines 80-87)
DefaultTimeout == 30
DefaultInterval == 5
DefaultMinTabs == 1
DEFAULT_SETTINGS ==
  [ enabled |-> TRUE,
    inactiveTimeout |-> DefaultTimeout,
    checkInterval |-> DefaultInterval,
    excludePinned |-> FALSE,
    excludeAudible |-> TRUE,
    minTabs |-> DefaultMinTabs ]

SettingKeys == DOMAIN DEFAULT_SETTINGS

\* { ...a, ...b } : the object spread of lines 119, 128, 224.
Merge(a, b) ==
  [k \in (DOMAIN a) \cup (DOMAIN b) |-> IF k \in DOMAIN b THEN b[k] ELSE a[k]]

\* ------------------------------------------------------------- tabs
Schemes == {"about:", "moz-extension:", "chrome:", "https:"}
NoUrl == "undefined"      \* a tab object without a url property

\* The kinds of tab the host creates: [pinned, audible, url].
TabKinds ==
  { [pinned |-> FALSE, audible |-> FALSE, url |-> "https:"],
    [pinned |-> TRUE,  audible |-> FALSE, url |-> "https:"] }

\* A tab object; index is the tab's place in the strip, from 1 on.
MkTab(k, act, disc, idx) ==
  [ active |-> act, discarded |-> disc, index |-> idx,
    pinned |-> k.pinned, audible |-> k.audible, url |-> k.url ]

PlainKind == [pinned |-> FALSE, audible |-> FALSE, url |-> "https:"]

\* url?.startsWith(...) of lines 267-269 and 314
IsSystemUrl(url) ==
  url # NoUrl /\ url \in {"about:", "moz-extension:", "chrome:"}

\* ------------------------------------------------------------- state
VARIABLES
  clock,          \* Date.now()
  host,           \* the browser's tabs: id -> tab object; tabs.query({}) lists
                  \* them in the order of the strip, by tab.index
  tabLastActive,  \* the Map of line 90: tab id -> timestamp
  settings,       \* the cached settings (line 91)
  store,          \* storage.local: <<>> or <<the stored settings>>
  changes,        \* storage.onChanged notifications not yet delivered
  checkIntervalId,\* line 92: 0 is null
  timers,         \* the interval timers live in the host: id -> period in ms
  lastId,         \* the last tab id the host handed out (ids are not reused)
  seen,           \* per open tab, when a listener last received its creation,
                  \* activation, navigation or audio start
  boot,           \* where init() (lines 95-112) stands
  scans,          \* the passes of checkAndDiscardInactiveTabs, one per timer tick
  force,          \* the pass of forceDiscardInactiveTabs (message discardNow)
  save,           \* the saveSettings command (message saveSettings)
  stats           \* the getStats command (message getStats)

vars == << clock, host, tabLastActive, settings, store, changes,
           checkIntervalId, timers, lastId, seen, boot, scans, force, save, stats >>

\* A pass of checkAndDiscardInactiveTabs: its locals (tabs, now, timeoutMs,
\* activeTabs.length as live, discardedCount as count), the tab of the loop (at),
\* and what the host saw of it: the number of its discard calls that the host
\* fulfilled (oks).
NoPass == [ pc |-> "idle", tabs |-> <<>>, at |-> 0, now |-> 0, timeoutMs |-> 0,
            live |-> 0, count |-> 0, oks |-> 0 ]
NoForce == [ pc |-> "idle", tabs |-> <<>>, at |-> 0, count |-> 0, oks |-> 0 ]
NoSave == [ pc |-> "idle", value |-> <<>> ]
NoStats == [ pc |-> "idle", total |-> 0, active |-> 0, discarded |-> 0,
             enabled |-> FALSE ]

\* ------------------------------------------------------------- helpers
Max(a, b) == IF a >= b THEN a ELSE b
Min(a, b) == IF a <= b THEN a ELSE b

\* The array that tabs.query({}) answers with holds the tabs in the order of
\* the strip; a snapshot keeps each tab's place in it as tab.index.  Place is
\* the place of tab j in the snapshot (0: before the first tab), After the ids
\* of the tabs that come after tab j, and NextId the first of them: the next
\* tab of for ... of (lines 142, 294, 360).
Place(tabs, j) == IF j = 0 THEN 0 ELSE tabs[j].index
After(tabs, j) == { t \in DOMAIN tabs : tabs[t].index > Place(tabs, j) }
NextIdLast(tabs, j) ==
  CHOOSE x \in After(tabs, j) : \A y \in After(tabs, j) : tabs[x].index >= tabs[y].index
NextId(tabs, j) ==
  CHOOSE t \in After(tabs, j) : \A u \in After(tabs, j) : tabs[t].index <= tabs[u].index

\* tabs.filter(t => !t.discarded) (line 288)
NonDiscarded(tabs) == { t \in DOMAIN tabs : ~tabs[t].discarded }
Discarded(tabs) == { t \in DOMAIN tabs : tabs[t].discarded }

\* Map.set / Map.delete / Map.get
MapSet(m, t, v) == [ u \in (DOMAIN m) \cup {t} |-> IF u = t THEN v ELSE m[u] ]
MapDelete(m, t) == [ u \in (DOMAIN m) \ {t} |-> m[u] ]
MapHas(m, t) == t \in DOMAIN m

\* ------------------------------------------------------------- host events
\* The listeners of setupListeners (lines 167-185) receive events once the
\* host has registered them.
Listening == boot = "ready"

\* The tab strip before tracking is seeded is the initial one: tab events are
\* taken from the seeding on.
Seeded == boot \in {"listen", "ready"}

\* Date.now() moves on (not within the moment between the answer to the
\* query of init and init's resumption).
Advance ==
  /\ boot # "listen"
  /\ clock < StartTime + MaxClock * ClockStep
  /\ clock' = clock + ClockStep
  /\ UNCHANGED << host, tabLastActive, settings, store, changes, checkIntervalId,
                  timers, lastId, seen, boot, scans, force, save, stats >>

\* The strip h with a new tab `id` put at place i: the tabs from place i on
\* move one place up.
Opened(h, id, tab, i) ==
  [ u \in (DOMAIN h) \cup {id} |->
      IF u = id THEN [tab EXCEPT !.index = i]
      ELSE IF h[u].index >= i THEN [h[u] EXCEPT !.index = @ + 1]
      ELSE h[u] ]

\* The strip h without tab `id`: the tabs after it move one place down.
Closed(h, id) ==
  [ u \in (DOMAIN h) \ {id} |->
      IF h[u].index > h[id].index THEN [h[u] EXCEPT !.index = @ - 1] ELSE h[u] ]

\* handleTabCreated (lines 188-191): the host opens a background tab at some
\* place of the strip.
handleTabCreated(m, id, now) == MapSet(m, id, now)

TabCreated(k, i) ==
  /\ Seeded
  /\ lastId < MaxTabs
  /\ i \in 1 .. Cardinality(DOMAIN host) + 1
  /\ lastId' = lastId + 1
  /\ host' = Opened(host, lastId + 1, MkTab(k, FALSE, FALSE, i), i)
  /\ tabLastActive' = IF Listening THEN handleTabCreated(tabLastActive, lastId + 1, clock)
                      ELSE tabLastActive
  /\ seen' = IF Listening THEN MapSet(seen, lastId + 1, clock) ELSE seen
  /\ UNCHANGED << clock, settings, store, changes, checkIntervalId, timers, boot,
                  scans, force, save, stats >>

\* handleTabActivated (lines 194-198): the user focuses tab t; the host reloads
\* it when it was discarded, and the tab that had the focus loses it.
handleTabActivated(m, id, now) == MapSet(m, id, now)

TabActivated(t) ==
  /\ Seeded
  /\ t \in DOMAIN host
  /\ ~host[t].active
  /\ host' = [ u \in DOMAIN host |->
                 IF u = t THEN [host[u] EXCEPT !.active = TRUE, !.discarded = FALSE]
                 ELSE [host[u] EXCEPT !.active = FALSE] ]
  /\ tabLastActive' = IF Listening THEN handleTabActivated(tabLastActive, t, clock)
                      ELSE tabLastActive
  /\ seen' = IF Listening THEN MapSet(seen, t, clock) ELSE seen
  /\ UNCHANGED << clock, settings, store, changes, checkIntervalId, timers, lastId,
                  boot, scans, force, save, stats >>

\* handleTabUpdated (lines 201-213), changeInfo = {audible: b} or {url: u}.
handleTabUpdated(m, id, changeInfo, now) ==
  LET m1 == IF "audible" \in DOMAIN changeInfo /\ changeInfo.audible = TRUE
            THEN MapSet(m, id, now) ELSE m
  IN  IF "url" \in DOMAIN changeInfo /\ changeInfo.url # ""
      THEN MapSet(m1, id, now) ELSE m1

TabAudible(t, b) ==
  /\ Seeded
  /\ t \in DOMAIN host
  /\ ~host[t].discarded
  /\ host[t].audible # b
  /\ b => Cardinality({ u \in DOMAIN host : host[u].audible }) < MaxAudible
  /\ host' = [host EXCEPT ![t].audible = b]
  /\ tabLastActive' =
       IF Listening
       THEN handleTabUpdated(tabLastActive, t, [audible |-> b], clock)
       ELSE tabLastActive
  /\ seen' = IF Listening /\ b THEN MapSet(seen, t, clock) ELSE seen
  /\ UNCHANGED << clock, settings, store, changes, checkIntervalId, timers, lastId,
                  boot, scans, force, save, stats >>

TabNavigated(t, u) ==
  /\ Seeded
  /\ t \in DOMAIN host
  /\ ~host[t].discarded
  /\ host' = [host EXCEPT ![t].url = u]
  /\ tabLastActive' =
       IF Listening THEN handleTabUpdated(tabLastActive, t, [url |-> u], clock)
       ELSE tabLastActive
  /\ seen' = IF Listening THEN MapSet(seen, t, clock) ELSE seen
  /\ UNCHANGED << clock, settings, store, changes, checkIntervalId, timers, lastId,
                  boot, scans, force, save, stats >>

handleTabRemovedAll(m, id) == <<>>

\* handleTabRemoved (lines 216-219): the tab is closed.
handleTabRemoved(m, id) == MapDelete(m, id)

TabRemoved(t) ==
  /\ Seeded
  /\ t \in DOMAIN host
  /\ host' = Closed(host, t)
  /\ tabLastActive' = IF Listening THEN handleTabRemoved(tabLastActive, t)
                      ELSE tabLastActive
  /\ seen' = MapDelete(seen, t)
  /\ UNCHANGED << clock, settings, store, changes, checkIntervalId, timers, lastId,
                  boot, scans, force, save, stats >>

\* ------------------------------------------------------------- timer
\* startCheckInterval (lines 152-164): clearInterval of the old handle when it
\* is truthy, then setInterval; the host hands out a handle that is not live.
FreshTimer(ts, old) ==
  CHOOSE i \in TimerIds : i \notin DOMAIN ts /\ (i # old \/ MaxTimers = 1)

\* (a restart that leaves the previous timer running)
startCheckIntervalNoClear(ts, id, s) ==
  LET new == FreshTimer(ts, id)
  IN  [ timers |-> MapSet(ts, new, s.checkInterval * 1000), id |-> new ]

startCheckInterval(ts, id, s) ==
  LET cleared == IF id # 0 THEN MapDelete(ts, id) ELSE ts
      new == FreshTimer(cleared, id)
  IN  [ timers |-> MapSet(cleared, new, s.checkInterval * 1000), id |-> new ]

\* ------------------------------------------------------------- init
\* loadSettings (lines 115-124); a rejected storage read leaves the defaults.
loadSettings(s, stored, failed) ==
  IF ~failed /\ stored # <<>> THEN Merge(DEFAULT_SETTINGS, stored[1]) ELSE s

InitLoadSettings(failed) ==
  /\ boot = "load"
  /\ settings' = loadSettings(settings, store, failed)
  /\ boot' = "track"
  /\ UNCHANGED << clock, host, tabLastActive, store, changes, checkIntervalId,
                  timers, lastId, seen, scans, force, save, stats >>

\* (a seeding that leaves the records of background tabs as they were)
RECURSIVE initializeTabTrackingKeep(_, _, _, _)
initializeTabTrackingKeep(m, tabs, j, now) ==
  IF After(tabs, j) = {} THEN m
  ELSE LET id == NextId(tabs, j)
       IN  initializeTabTrackingKeep(
             IF tabs[id].active \/ ~MapHas(m, id) THEN MapSet(m, id, now) ELSE m,
             tabs, id, now)

\* initializeTabTracking (lines 136-149): every tab of the snapshot gets now.
RECURSIVE initializeTabTracking(_, _, _, _)
initializeTabTracking(m, tabs, j, now) ==
  IF After(tabs, j) = {} THEN m
  ELSE LET id == NextId(tabs, j)
       IN  initializeTabTracking(
             IF tabs[id].active THEN MapSet(m, id, now) ELSE MapSet(m, id, now),
             tabs, id, now)

\* The host answers the tabs.query of line 138 and the map is seeded from that
\* answer (lines 141-146).  Until init resumes no listener is registered: what
\* happens to the tabs in between is not in the answer and raises no event.
InitTrackTabs ==
  /\ boot = "track"
  /\ tabLastActive' = initializeTabTracking(tabLastActive, host, 0, clock)
  /\ boot' = "listen"
  /\ UNCHANGED << clock, host, settings, store, changes, checkIntervalId, timers,
                  lastId, seen, scans, force, save, stats >>

\* init resumes (lines 104-107): the listeners are registered, events are
\* delivered from now on, and the timer is started.
ListenersRegistered ==
  /\ boot = "listen"
  /\ LET r == startCheckInterval(timers, checkIntervalId, settings)
     IN  timers' = r.timers /\ checkIntervalId' = r.id
  /\ boot' = "ready"
  /\ UNCHANGED << clock, host, tabLastActive, settings, store, changes,
                  lastId, seen, scans, force, save, stats >>

\* ------------------------------------------------------------- eviction policy
shouldExcludeNoPinned(tab, s) ==
  IF tab.active THEN TRUE
  ELSE IF tab.discarded THEN TRUE
  ELSE IF s.excludeAudible /\ tab.audible THEN TRUE
  ELSE IF IsSystemUrl(tab.url) THEN TRUE
  ELSE FALSE

\* shouldExclude (lines 253-274)
shouldExclude(tab, s) ==
  IF tab.active THEN TRUE
  ELSE IF tab.discarded THEN TRUE
  ELSE IF s.excludePinned /\ tab.pinned THEN TRUE
  ELSE IF s.excludeAudible /\ tab.audible THEN TRUE
  ELSE IF IsSystemUrl(tab.url) THEN TRUE
  ELSE FALSE

ScanSkipsAnyAudible(tab, s) ==
  \/ tab.active
  \/ tab.discarded
  \/ s.excludePinned /\ tab.pinned
  \/ tab.audible
  \/ IsSystemUrl(tab.url)

\* The skips at the head of the scan's loop body (lines 295-316).
ScanSkips(tab, s) ==
  \/ tab.active
  \/ tab.discarded
  \/ s.excludePinned /\ tab.pinned
  \/ s.excludeAudible /\ tab.audible
  \/ IsSystemUrl(tab.url)

\* browser.tabs.discard(id) as the host answers it: an unknown id is rejected;
\* the focused tab and a tab already discarded are left as they are and the
\* call is fulfilled; any other tab is discarded, or the host rejects the call.
DiscardOutcomes(h, id) ==
  IF id \notin DOMAIN h THEN { [ok |-> FALSE, host |-> h] }
  ELSE IF h[id].active \/ h[id].discarded THEN { [ok |-> TRUE, host |-> h] }
  ELSE { [ok |-> TRUE, host |-> [h EXCEPT ![id].discarded = TRUE]],
         [ok |-> FALSE, host |-> h] }

\* ------------------------------------------------------------- scheduled scan
\* !lastActive (line 321): no entry, or a falsy timestamp.
Untracked(m, id) == ~MapHas(m, id) \/ m[id] = 0

\* The synthesized timestamp of line 322.
StaleStampAtTimeout(now, timeoutMs) == now - timeoutMs
StaleStamp(now, timeoutMs) == now - (timeoutMs + 1000)

\* inactiveFor > timeoutMs (line 332)
PastTimeoutGe(inactiveFor, timeoutMs) == inactiveFor >= timeoutMs
PastTimeout(inactiveFor, timeoutMs) == inactiveFor > timeoutMs

\* activeTabs.length - discardedCount <= settings.minTabs (line 334)
FloorReachedBelow(live, count, minTabs) == live - count < minTabs
FloorReached(live, count, minTabs) == live - count <= minTabs

\* The loop of lines 294-348 from the tab after j up to the next await: it ends
\* at a discard call for tab `at`, or at the end of the pass (at = 0).
RECURSIVE ScanLoop(_, _, _, _, _, _, _, _)
ScanLoop(tabs, j, m, count, live, now, timeoutMs, s) ==
  IF After(tabs, j) = {} THEN [ at |-> 0, map |-> m ]
  ELSE
    LET id == NextId(tabs, j)
        tab == tabs[id]
    IN  IF ScanSkips(tab, s)
        THEN ScanLoop(tabs, id, m, count, live, now, timeoutMs, s)
        ELSE
          LET lastActive == IF Untracked(m, id) THEN StaleStamp(now, timeoutMs)
                            ELSE m[id]
              m1 == IF Untracked(m, id) THEN MapSet(m, id, lastActive) ELSE m
              inactiveFor == now - lastActive
          IN  IF PastTimeout(inactiveFor, timeoutMs)
              THEN IF FloorReached(live, count, s.minTabs)
                   THEN [ at |-> 0, map |-> m1 ]                \* break
                   ELSE [ at |-> id, map |-> m1 ]               \* tabs.discard(id)
              ELSE ScanLoop(tabs, id, m1, count, live, now, timeoutMs, s)

\* The pass after the loop has run from tab j on.  Of the snapshot only the
\* tabs from `at` on are kept: the loop never goes back to an earlier one.
Rest(tabs, at) ==
  IF at = 0 THEN <<>>
  ELSE [ t \in { u \in DOMAIN tabs : tabs[u].index >= tabs[at].index } |-> tabs[t] ]

ScanStep(p, count, oks, r) ==
  IF r.at = 0
  THEN [ NoPass EXCEPT !.pc = "done", !.count = count, !.oks = oks ]
  ELSE [ p EXCEPT !.pc = "discard",
                  !.tabs = Rest(p.tabs, r.at),
                  !.at = r.at,
                  !.count = count,
                  !.oks = oks ]

\* Passes in progress, scheduled and manual.
InProgress ==
  Cardinality({ p \in Passes : scans[p].pc # "idle" })
    + (IF force.pc # "idle" THEN 1 ELSE 0)

FreeSlot == CHOOSE p \in Passes :
              scans[p].pc = "idle" /\ \A q \in Passes : scans[q].pc = "idle" => p <= q

\* Where a pass stands after lines 278-282: it has returned 0, or it awaits
\* the answer to tabs.query.
StartPassAlways(s) == [NoPass EXCEPT !.pc = "query"]
StartPass(s) ==
  IF ~s.enabled THEN [NoPass EXCEPT !.pc = "done"] ELSE [NoPass EXCEPT !.pc = "query"]

\* The timer fires (lines 159-161) and a pass starts (lines 277-282).
Tick ==
  /\ DOMAIN timers # {}
  /\ InProgress < MaxPasses
  /\ scans' = [scans EXCEPT ![FreeSlot] = StartPass(settings)]
  /\ UNCHANGED << clock, host, tabLastActive, settings, store, changes,
                  checkIntervalId, timers, lastId, seen, boot, force, save, stats >>

\* The pass from the answer to tabs.query (lines 282-290) to its first await.
AfterQuery(h, m, now, s) ==
  LET timeoutMs == s.inactiveTimeout * 1000
      live == Cardinality(NonDiscarded(h))
      r == ScanLoop(h, 0, m, 0, live, now, timeoutMs, s)
      q == [NoPass EXCEPT !.pc = "query", !.tabs = h, !.now = now,
                          !.timeoutMs = timeoutMs, !.live = live]
  IN  [ pass |-> ScanStep(q, 0, 0, r), map |-> r.map ]

\* tabs.query({}) is answered and the loop runs to its first await.
ScanQueryDone(p) ==
  /\ scans[p].pc = "query"
  /\ LET a == AfterQuery(host, tabLastActive, clock, settings)
     IN  /\ scans' = [scans EXCEPT ![p] = a.pass]
         /\ tabLastActive' = a.map
  /\ UNCHANGED << clock, host, settings, store, changes, checkIntervalId, timers,
                  lastId, seen, boot, force, save, stats >>

ScanCountAll(count, ok) == count + 1

\* discardedCount after the await of line 341: ++ when fulfilled (line 342),
\* unchanged when rejected (lines 344-346).
ScanCount(count, ok) == IF ok THEN count + 1 ELSE count

\* The pass q from the settling of its discard call (lines 341-346), with
\* outcome o, to its next await.
AfterDiscard(q, o, m, s) ==
  LET count == ScanCount(q.count, o.ok)
      oks == IF o.ok THEN q.oks + 1 ELSE q.oks
      r == ScanLoop(q.tabs, q.at, m, count, q.live, q.now, q.timeoutMs, s)
  IN  [ pass |-> ScanStep(q, count, oks, r), map |-> r.map, host |-> o.host ]

\* The discard call is settled and the loop goes on.
ScanDiscardDone(p) ==
  /\ scans[p].pc = "discard"
  /\ \E o \in DiscardOutcomes(host, scans[p].at) :
       LET a == AfterDiscard(scans[p], o, tabLastActive, settings)
       IN  /\ host' = a.host
           /\ scans' = [scans EXCEPT ![p] = a.pass]
           /\ tabLastActive' = a.map
  /\ UNCHANGED << clock, settings, store, changes, checkIntervalId, timers,
                  lastId, seen, boot, force, save, stats >>

\* The pass has returned discardedCount (line 350); the timer callback drops it.
ScanReturn(p) ==
  /\ scans[p].pc = "done"
  /\ scans' = [scans EXCEPT ![p] = NoPass]
  /\ UNCHANGED << clock, host, tabLastActive, settings, store, changes,
                  checkIntervalId, timers, lastId, seen, boot, force, save, stats >>

\* ------------------------------------------------------------- commands
\* handleMessage (lines 231-250).  The popup has one command in progress at a time.
CmdIdle == force.pc = "idle" /\ save.pc = "idle" /\ stats.pc = "idle"

\* The loop of lines 360-372 from the tab after j up to the next await.
RECURSIVE ForceLoop(_, _, _)
ForceLoop(tabs, j, s) ==
  IF After(tabs, j) = {} THEN 0
  ELSE LET id == NextId(tabs, j)
       IN  IF shouldExclude(tabs[id], s) THEN ForceLoop(tabs, id, s) ELSE id

ForceStep(f, at, count, oks) ==
  IF at = 0
  THEN [ NoForce EXCEPT !.pc = "done", !.count = count, !.oks = oks ]
  ELSE [ f EXCEPT !.pc = "discard",
                  !.tabs = Rest(f.tabs, at),
                  !.at = at,
                  !.count = count,
                  !.oks = oks ]

\* Message discardNow (lines 245-246, 354-355).
DiscardNow ==
  /\ Listening /\ CmdIdle
  /\ InProgress < MaxPasses
  /\ force' = [NoForce EXCEPT !.pc = "query"]
  /\ UNCHANGED << clock, host, tabLastActive, settings, store, changes,
                  checkIntervalId, timers, lastId, seen, boot, scans, save, stats >>

\* tabs.query({}) is answered (line 355) and the loop runs to its first await.
ForceQueryDone ==
  /\ force.pc = "query"
  /\ force' = ForceStep([force EXCEPT !.tabs = host], ForceLoop(host, 0, settings), 0, 0)
  /\ UNCHANGED << clock, host, tabLastActive, settings, store, changes,
                  checkIntervalId, timers, lastId, seen, boot, scans, save, stats >>

\* discardedCount after the await of line 366 (lines 367, 369-371).
ForceCount(count, ok) == IF ok THEN count + 1 ELSE count

\* The discard call is settled (lines 365-371) and the loop goes on.
ForceDiscardDone ==
  /\ force.pc = "discard"
  /\ \E o \in DiscardOutcomes(host, force.at) :
       /\ host' = o.host
       /\ force' = ForceStep(force, ForceLoop(force.tabs, force.at, settings),
                             ForceCount(force.count, o.ok),
                             IF o.ok THEN force.oks + 1 ELSE force.oks)
  /\ UNCHANGED << clock, tabLastActive, settings, store, changes, checkIntervalId,
                  timers, lastId, seen, boot, scans, save, stats >>

\* The response { discarded } (line 247) has been sent.
ForceReturn ==
  /\ force.pc = "done"
  /\ force' = NoForce
  /\ UNCHANGED << clock, host, tabLastActive, settings, store, changes,
                  checkIntervalId, timers, lastId, seen, boot, scans, save, stats >>

getStatsFocused(tabs, s) ==
  LET discarded == Cardinality(Discarded(tabs))
      total == Cardinality(DOMAIN tabs)
  IN  [ pc |-> "done", total |-> total,
        active |-> Cardinality({ t \in DOMAIN tabs : tabs[t].active }),
        discarded |-> discarded, enabled |-> s.enabled ]

\* getStats (lines 378-389), from the answer to tabs.query.
getStats(tabs, s) ==
  LET discarded == Cardinality(Discarded(tabs))
      total == Cardinality(DOMAIN tabs)
  IN  [ pc |-> "done", total |-> total, active |-> total - discarded,
        discarded |-> discarded, enabled |-> s.enabled ]

\* Message getStats (lines 242-243, 379).
StatsAsked ==
  /\ Listening /\ CmdIdle
  /\ stats' = [NoStats EXCEPT !.pc = "query"]
  /\ UNCHANGED << clock, host, tabLastActive, settings, store, changes,
                  checkIntervalId, timers, lastId, seen, boot, scans, force, save >>

StatsDone ==
  /\ stats.pc = "query"
  /\ stats' = getStats(host, settings)
  /\ UNCHANGED << clock, host, tabLastActive, settings, store, changes,
                  checkIntervalId, timers, lastId, seen, boot, scans, force, save >>

StatsReturn ==
  /\ stats.pc = "done"
  /\ stats' = NoStats
  /\ UNCHANGED << clock, host, tabLastActive, settings, store, changes,
                  checkIntervalId, timers, lastId, seen, boot, scans, force, save >>

\* ------------------------------------------------------------- settings
\* parseInt(text, 10) of line 42, on the text as the sequence of its UTF-16
\* code units: leading white space is skipped, a sign is read, then decimal
\* digits up to the first code unit that is none; without a digit the result
\* is NaN.
\* StrWhiteSpaceChar: TAB, LF, VT, FF, CR, SP, NBSP, the other space
\* separators, LS, PS and ZWNBSP.
StrWhiteSpaceChar ==
  { 9, 10, 11, 12, 13, 32, 160, 5760, 8232, 8233, 8239, 8287, 12288, 65279 }
    \cup (8192 .. 8202)

\* The value of a decimal digit ("0" is 48), -1 for any other code unit.
DigitOf(c) == IF c \in 48 .. 57 THEN c - 48 ELSE -1

RECURSIVE SkipBlanks(_, _)
SkipBlanks(text, i) ==
  IF i <= Len(text) /\ text[i] \in StrWhiteSpaceChar THEN SkipBlanks(text, i + 1) ELSE i

RECURSIVE ReadDigits(_, _, _, _)
ReadDigits(text, i, any, acc) ==
  IF i <= Len(text) /\ DigitOf(text[i]) >= 0
  THEN ReadDigits(text, i + 1, TRUE, 10 * acc + DigitOf(text[i]))
  ELSE [ nan |-> ~any, val |-> acc ]

\* "-" is 45, "+" is 43.
parseInt(text) ==
  LET i == SkipBlanks(text, 1)
      signed == i <= Len(text) /\ text[i] \in {45, 43}
      r == ReadDigits(text, IF signed THEN i + 1 ELSE i, FALSE, 0)
  IN  IF signed /\ text[i] = 45 THEN [ nan |-> r.nan, val |-> 0 - r.val ] ELSE r

\* The popup's saveSettings (lines 39-48): the form's fields, the timeout as
\* parseInt(value, 10) || 30.
PopupUpdate(form) ==
  LET n == parseInt(form.timeout)
  IN  [ enabled |-> form.enabled,
        inactiveTimeout |-> IF n.nan \/ n.val = 0 THEN 30 ELSE n.val,
        excludePinned |-> form.excludePinned,
        excludeAudible |-> form.excludeAudible ]

\* What the user may have put in the form: a tab and "60", nothing, "-5".
TimeoutTexts == { <<9, 54, 48>>, <<>>, <<45, 53>> }
Forms ==
  [ enabled : BOOLEAN, timeout : TimeoutTexts, excludePinned : BOOLEAN,
    excludeAudible : {TRUE} ]

\* The partial updates a saveSettings message carries: the popup's, and two
\* that name the fields the popup leaves out.
Updates ==
  { PopupUpdate(form) : form \in Forms }
    \cup { [checkInterval |-> 10], [minTabs |-> 0] }

\* saveSettings (lines 127-129): merge into the cache, hand it to storage.local.set.
SaveSettings(u) ==
  /\ Listening /\ CmdIdle
  /\ settings' = Merge(settings, u)
  /\ save' = [ pc |-> "set", value |-> <<Merge(settings, u)>> ]
  /\ UNCHANGED << clock, host, tabLastActive, store, changes, checkIntervalId,
                  timers, lastId, seen, boot, scans, force, stats >>

\* storage.local writes the record and queues storage.onChanged.
StoreWritten ==
  /\ save.pc = "set"
  /\ Len(changes) < MaxChanges
  /\ store' = save.value
  /\ changes' = Append(changes, save.value[1])
  /\ save' = [save EXCEPT !.pc = "written"]
  /\ UNCHANGED << clock, host, tabLastActive, settings, checkIntervalId, timers,
                  lastId, seen, boot, scans, force, stats >>

\* saveSettings resumes after the await (line 132); handleMessage answers
\* { success: true } (line 240).
SaveResumed ==
  /\ save.pc = "written"
  /\ LET r == startCheckInterval(timers, checkIntervalId, settings)
     IN  timers' = r.timers /\ checkIntervalId' = r.id
  /\ save' = [save EXCEPT !.pc = "done"]
  /\ UNCHANGED << clock, host, tabLastActive, settings, store, changes, lastId, seen,
                  boot, scans, force, stats >>

SaveReturn ==
  /\ save.pc = "done"
  /\ save' = NoSave
  /\ UNCHANGED << clock, host, tabLastActive, settings, store, changes,
                  checkIntervalId, timers, lastId, seen, boot, scans, force, stats >>

\* handleStorageChanged (lines 222-228), area 'local', changes.settings.newValue.
handleStorageChanged(newValue) == Merge(DEFAULT_SETTINGS, newValue)

StorageChanged ==
  /\ Listening
  /\ changes # <<>>
  /\ settings' = handleStorageChanged(Head(changes))
  /\ LET r == startCheckInterval(timers, checkIntervalId,
                                 handleStorageChanged(Head(changes)))
     IN  timers' = r.timers /\ checkIntervalId' = r.id
  /\ changes' = Tail(changes)
  /\ UNCHANGED << clock, host, tabLastActive, store, lastId, seen, boot, scans, force,
                  save, stats >>

\* ------------------------------------------------------------- the program
\* What storage.local may hold from an earlier session.
StoredAtStart ==
  { <<>>,
    << [DEFAULT_SETTINGS EXCEPT !.inactiveTimeout = 20, !.excludePinned = TRUE,
                                !.minTabs = 2] >>,
    << [DEFAULT_SETTINGS EXCEPT !.inactiveTimeout = 20, !.excludeAudible = FALSE] >> }

\* The ways to line up the tabs of S in the strip: id -> place.
Orders(S) ==
  { o \in [S -> 1 .. Cardinality(S)] : \A a \in S : \A b \in S : a # b => o[a] # o[b] }

\* The tab strip at start: the focused tab and the others but one, in the
\* order they were opened in; the host may open the last one later, at any
\* place of the strip.
InitialHosts ==
  { [ t \in 1 .. n |-> MkTab(PlainKind, t = 1, FALSE, t) ] : n \in {MaxTabs - 1} }

Init ==
  /\ clock = StartTime
  /\ host \in InitialHosts
  /\ lastId = Cardinality(DOMAIN host)
  /\ tabLastActive = <<>>
  /\ seen = <<>>
  /\ settings = DEFAULT_SETTINGS
  /\ store \in StoredAtStart
  /\ changes = <<>>
  /\ checkIntervalId = 0
  /\ timers = <<>>
  /\ boot = "load"
  /\ scans = [ p \in Passes |-> NoPass ]
  /\ force = NoForce
  /\ save = NoSave
  /\ stats = NoStats

\* The tab strip and its events.
TabEvents ==
  \/ \E k \in TabKinds : \E i \in Tabs : TabCreated(k, i)
  \/ \E t \in Tabs : TabActivated(t)
  \/ \E t \in Tabs : TabAudible(t, TRUE)
  \/ \E t \in Tabs : TabNavigated(t, "https:")
  \/ \E t \in Tabs : TabRemoved(t)

\* init()
Boot ==
  \/ \E failed \in BOOLEAN : InitLoadSettings(failed)
  \/ InitTrackTabs
  \/ ListenersRegistered

\* The scheduled scan and the manual trigger, one pass at a time: the timer
\* fires and the button is pressed while no pass is in progress.
Passing ==
  \/ InProgress = 0 /\ Tick
  \/ \E p \in Passes : ScanQueryDone(p)
  \/ \E p \in Passes : ScanDiscardDone(p)
  \/ \E p \in Passes : ScanReturn(p)
  \/ InProgress = 0 /\ DiscardNow
  \/ ForceQueryDone
  \/ ForceDiscardDone
  \/ ForceReturn

\* Spec: the tab strip, the clock, init() and the passes; tab events and clock
\* readings fall at every await of a pass.
Next ==
  \/ Advance
  \/ TabEvents
  \/ Boot
  \/ Passing

Spec == Init /\ [][Next]_vars

\* The popup's commands.
Commands ==
  \/ \E u \in Updates : SaveSettings(u)
  \/ StoreWritten
  \/ SaveResumed
  \/ SaveReturn
  \/ StorageChanged
  \/ StatsAsked
  \/ StatsDone
  \/ StatsReturn

\* SpecCmd: init(), the popup's commands, the storage notifications and the
\* passes, on the tab strip as it stands at start.
NextCmd ==
  \/ Boot
  \/ Commands
  \/ Passing

SpecCmd == Init /\ [][NextCmd]_vars

\* SpecOverlap: init(), the clock and the passes with nothing to keep them
\* apart: the timer fires and the button is pressed whatever is in progress.
\* The tab strip holds MaxTabs tabs, in any order, and raises no event.
InitOverlap ==
  /\ clock = StartTime
  /\ \E o \in Orders(1 .. MaxTabs) :
       host = [ t \in 1 .. MaxTabs |-> MkTab(PlainKind, t = 1, FALSE, o[t]) ]
  /\ lastId = MaxTabs
  /\ tabLastActive = <<>>
  /\ seen = <<>>
  /\ settings = DEFAULT_SETTINGS
  /\ store \in StoredAtStart
  /\ changes = <<>>
  /\ checkIntervalId = 0
  /\ timers = <<>>
  /\ boot = "load"
  /\ scans = [ p \in Passes |-> NoPass ]
  /\ force = NoForce
  /\ save = NoSave
  /\ stats = NoStats

NextOverlap ==
  \/ Advance
  \/ Boot
  \/ Tick
  \/ \E p \in Passes : ScanQueryDone(p)
  \/ \E p \in Passes : ScanDiscardDone(p)
  \/ \E p \in Passes : ScanReturn(p)
  \/ DiscardNow
  \/ ForceQueryDone
  \/ ForceDiscardDone
  \/ ForceReturn

SpecOverlap == InitOverlap /\ [][NextOverlap]_vars

\* SpecPolicy: the two paths on every kind of tab.  Tab 1 is drawn from all
\* combinations of active, discarded, pinned, audible and url (a system
\* scheme, another one, or none), before or after a focused tab 2; both
\* records are 40 s back and minTabs is 0, so that only the skips decide.
PolicyTabs ==
  { [ active |-> a, discarded |-> d, index |-> i, pinned |-> p, audible |-> b,
      url |-> u ] :
      a \in BOOLEAN, d \in BOOLEAN, i \in 1 .. 2, p \in BOOLEAN, b \in BOOLEAN,
      u \in Schemes \cup {NoUrl} }
PolicySettings ==
  { [DEFAULT_SETTINGS EXCEPT !.excludePinned = p, !.excludeAudible = b, !.minTabs = 0] :
      p \in BOOLEAN, b \in BOOLEAN }

InitPolicy ==
  /\ clock = StartTime
  /\ \E tab \in PolicyTabs :
       host = << tab, MkTab(PlainKind, TRUE, FALSE, 3 - tab.index) >>
  /\ lastId = 2
  /\ tabLastActive = [ t \in 1..2 |-> StartTime - 40 * 1000 ]
  /\ seen = <<>>
  /\ settings \in PolicySettings
  /\ store = <<>>
  /\ changes = <<>>
  /\ checkIntervalId = 1
  /\ timers = [ i \in {1} |-> settings.checkInterval * 1000 ]
  /\ boot = "ready"
  /\ scans = [ p \in Passes |-> NoPass ]
  /\ force = NoForce
  /\ save = NoSave
  /\ stats = NoStats

NextPolicy ==
  \/ InProgress = 0 /\ Tick
  \/ \E p \in Passes : ScanQueryDone(p)
  \/ \E p \in Passes : ScanDiscardDone(p)
  \/ \E p \in Passes : ScanReturn(p)
  \/ InProgress = 0 /\ DiscardNow
  \/ ForceQueryDone
  \/ ForceDiscardDone
  \/ ForceReturn

SpecPolicy == InitPolicy /\ [][NextPolicy]_vars

\* SpecLive: the scheduled scan over unbounded time.  Time is kept relative to
\* the present: Date.now() reads the same and, as time passes, every record
\* falls back by ClockStep, down to Oldest, which is further back than any
\* timeout used here.  The user switches between the tabs at every await of a
\* pass and drags them between two passes; the host fulfils every discard
\* call; the timer keeps firing.
Oldest == StartTime - 2 * ClockStep

Elapse ==
  /\ boot = "ready"
  /\ InProgress = 0
  /\ tabLastActive' = [ t \in DOMAIN tabLastActive |->
                          Max(tabLastActive[t] - ClockStep, Oldest) ]
  /\ seen' = [ t \in DOMAIN seen |-> Max(seen[t] - ClockStep, Oldest) ]
  /\ UNCHANGED << clock, host, settings, store, changes, checkIntervalId, timers,
                  lastId, boot, scans, force, save, stats >>

\* The user drags tab t to place i of the strip while no pass is in progress.
\* No listener is registered for tabs.onMoved (lines 167-185): only the host
\* changes, and the next tabs.query answers in the new order.
TabMoved(t, i) ==
  /\ Seeded
  /\ InProgress = 0
  /\ t \in DOMAIN host
  /\ i \in 1 .. Cardinality(DOMAIN host)
  /\ i # host[t].index
  /\ host' = Opened(Closed(host, t), t, host[t], i)
  /\ UNCHANGED << clock, tabLastActive, settings, store, changes, checkIntervalId,
                  timers, lastId, seen, boot, scans, force, save, stats >>

\* The discard call of pass p is fulfilled.
ScanDiscardFulfilled(p) ==
  /\ ScanDiscardDone(p)
  /\ scans'[p].oks = scans[p].oks + 1

InitLive ==
  /\ clock = StartTime
  /\ \E o \in Orders(1 .. MaxTabs) :
       host = [ t \in 1 .. MaxTabs |-> MkTab(PlainKind, t = MaxTabs, FALSE, o[t]) ]
  /\ lastId = MaxTabs
  /\ tabLastActive = [ t \in 1..MaxTabs |-> StartTime ]
  /\ seen = <<>>
  /\ settings \in { [DEFAULT_SETTINGS EXCEPT !.inactiveTimeout = 20, !.minTabs = n] :
                       n \in 1..2 }
  /\ store = <<>>
  /\ changes = <<>>
  /\ checkIntervalId = 1
  /\ timers = [ i \in {1} |-> settings.checkInterval * 1000 ]
  /\ boot = "ready"
  /\ scans = [ p \in Passes |-> NoPass ]
  /\ force = NoForce
  /\ save = NoSave
  /\ stats = NoStats

LiveTick == InProgress = 0 /\ Tick
LiveQueryDone == \E p \in Passes : ScanQueryDone(p)
LiveDiscardDone == \E p \in Passes : ScanDiscardFulfilled(p)
LiveReturn == \E p \in Passes : ScanReturn(p)

NextLive ==
  \/ Elapse
  \/ \E t \in Tabs : TabActivated(t)
  \/ \E t \in Tabs : \E i \in Tabs : TabMoved(t, i)
  \/ LiveTick
  \/ LiveQueryDone
  \/ LiveDiscardDone
  \/ LiveReturn

SpecLive ==
  /\ InitLive
  /\ [][NextLive]_vars
  /\ SF_vars(Elapse)
  /\ WF_vars(LiveTick)
  /\ WF_vars(LiveQueryDone)
  /\ WF_vars(LiveDiscardDone)
  /\ WF_vars(LiveReturn)

\* SpecAlone: passes on their own, one after the other.  The settings, the
\* tabs, their order in the strip and the records are drawn from bounded sets;
\* the host fulfils every discard call and raises no event, and the clock
\* stands still.  A pass is suspended at each of its awaits as in Spec.
MaxAloneTabs == 4
AloneSettings ==
  { [DEFAULT_SETTINGS EXCEPT !.minTabs = n, !.excludePinned = b] :
      n \in 0..2, b \in BOOLEAN }
AloneHosts ==
  UNION { { [ t \in 1..n |-> IF t = 1 THEN MkTab(PlainKind, TRUE, FALSE, o[t])
                                      ELSE MkTab(k[t], FALSE, d[t], o[t]) ] :
              k \in [2..n -> TabKinds], d \in [2..n -> BOOLEAN], o \in Orders(1..n) } :
          n \in 1..MaxAloneTabs }

\* Idle times of the records at the start: past the default timeout, and at it.
AloneIdle == { 40 * 1000, DefaultTimeout * 1000 }

\* The records of the tabs of h: the focused tab has one, any other tab has
\* one or none.
AloneMaps(h) ==
  UNION { { [ t \in S |-> StartTime - i[t] ] : i \in [S -> AloneIdle] } :
          S \in { T \in SUBSET DOMAIN h : 1 \in T } }

InitAlone ==
  /\ clock = StartTime
  /\ host \in AloneHosts
  /\ lastId = Cardinality(DOMAIN host)
  /\ tabLastActive \in AloneMaps(host)
  /\ tabLastActive[1] = StartTime - 40 * 1000
  /\ seen = <<>>
  /\ settings \in AloneSettings
  /\ store = <<>>
  /\ changes = <<>>
  /\ checkIntervalId = 1
  /\ timers = [ i \in {1} |-> settings.checkInterval * 1000 ]
  /\ boot = "ready"
  /\ scans = [ p \in Passes |-> NoPass ]
  /\ force = NoForce
  /\ save = NoSave
  /\ stats = NoStats

NextAlone ==
  \/ InProgress = 0 /\ Tick
  \/ \E p \in Passes : ScanQueryDone(p)
  \/ \E p \in Passes : ScanDiscardFulfilled(p)
  \/ \E p \in Passes : ScanReturn(p)

SpecAlone == InitAlone /\ [][NextAlone]_vars

\* ------------------------------------------------------------- observations
\* This step issues browser.tabs.discard(t) from scheduled pass p (line 341).
ScanIssues(p, t) ==
  /\ scans'[p].pc = "discard"
  /\ scans'[p].at = t
  /\ scans[p].pc # "discard" \/ scans[p].at # t

\* This step issues browser.tabs.discard(t) from the manual trigger (line 366).
ForceIssues(t) ==
  /\ force'.pc = "discard"
  /\ force'.at = t
  /\ force.pc # "discard" \/ force.at # t

Focused(h, t) == t \in DOMAIN h /\ h[t].active

\* ------------------------------------------------------------- claims
\* C1: no discard call of the scheduled scan or of the manual trigger targets
\* a tab that has the focus at the moment the call is made.
C1_FocusedNeverTargeted ==
  [][ \A t \in Tabs :
        ((\E p \in Passes : ScanIssues(p, t)) \/ ForceIssues(t))
          => ~Focused(host', t) ]_vars

\* C2: whenever the scheduled scan issues a discard call, the host holds more
\* than settings.minTabs non-discarded tabs at that moment.
C2_ScanKeepsFloor ==
  [][ \A t \in Tabs : \A p \in Passes :
        ScanIssues(p, t) => Cardinality(NonDiscarded(host')) > settings'.minTabs ]_vars

\* The exclusion policy as the design states it (spec 4.2).
Protected(tab, s) ==
  \/ tab.active
  \/ tab.discarded
  \/ s.excludePinned /\ tab.pinned
  \/ s.excludeAudible /\ tab.audible
  \/ tab.url \in {"about:", "moz-extension:", "chrome:"}

\* C3: the scheduled scan asks to discard a tab only when, by the record it
\* read, the tab has been idle strictly longer than the pass's timeout; so no
\* discard call of a scan targets an open tab whose creation, activation,
\* navigation or audio start was received less than, or exactly, the timeout ago.
C3_OnlyPastTimeout ==
  [][ \A t \in Tabs : \A p \in Passes :
        ScanIssues(p, t) =>
          /\ MapHas(tabLastActive', t)
          /\ scans'[p].now - tabLastActive'[t] > scans'[p].timeoutMs
          /\ MapHas(seen', t) => clock' - seen'[t] > scans'[p].timeoutMs ]_vars

\* A pass asks to discard a tab whose last event, an activation or a navigation
\* received at the start, is by now further back than the timeout.
C3_Witness ==
  \E p \in Passes : \E t \in DOMAIN host :
    /\ scans[p].pc = "discard"
    /\ scans[p].at = t
    /\ scans[p].now = clock
    /\ MapHas(seen, t) /\ seen[t] = StartTime
    /\ MapHas(tabLastActive, t) /\ tabLastActive[t] = seen[t]
    /\ scans[p].now - tabLastActive[t] > scans[p].timeoutMs

\* Tab a comes before tab b in the enumeration of the snapshot (a = 0: b is
\* any tab of it).
Earlier(tabs, a, b) == Place(tabs, a) < Place(tabs, b)

\* C4: the manual trigger asks to discard exactly the tabs of its enumeration
\* that the exclusion policy does not protect (idle time and minTabs play no
\* part), and returns the number of its discard calls that were fulfilled.
C4_ForceExactlyEligible ==
  [][ (force.pc \in {"query", "discard"} /\ force' # force) =>
        LET snap == IF force.pc = "query" THEN host ELSE force.tabs
            j == IF force.pc = "query" THEN 0 ELSE force.at
            k == force'.at
        IN  /\ k # 0 =>
                 (k \in DOMAIN snap /\ Earlier(snap, j, k) /\ ~Protected(snap[k], settings))
            /\ \A t \in DOMAIN snap :
                 (Earlier(snap, j, t) /\ (k = 0 \/ Earlier(snap, t, k)))
                   => Protected(snap[t], settings)
            /\ force'.pc = "done" <=> k = 0
            /\ force'.pc = "done" => force'.count = force'.oks ]_vars

\* The manual trigger has finished: it discarded a tab whose record is the
\* current time, left a pinned tab alone, and took the host below the floor.
C4_Witness ==
  /\ force.pc = "done"
  /\ force.count = 1
  /\ settings.excludePinned
  /\ Cardinality(NonDiscarded(host)) < settings.minTabs
  /\ \E b \in DOMAIN host : \E c \in DOMAIN host :
       /\ host[b].discarded
       /\ MapHas(tabLastActive, b) /\ tabLastActive[b] = clock
       /\ host[c].pinned /\ ~host[c].discarded

\* This step runs scheduled pass p from an await to the next.
ScanRuns(p) == scans[p].pc \in {"query", "discard"} /\ scans'[p] # scans[p]

\* The locals of pass p in this step (they are set by the step that handles
\* the answer to tabs.query).
PassNow(p) == IF scans[p].pc = "query" THEN clock ELSE scans[p].now
PassTimeout(p) ==
  IF scans[p].pc = "query" THEN settings.inactiveTimeout * 1000 ELSE scans[p].timeoutMs
PassLive(p) ==
  IF scans[p].pc = "query" THEN Cardinality(NonDiscarded(host)) ELSE scans[p].live

\* Records older than anything the clock of the model shows.
LongAgo(tabs) == [ t \in DOMAIN tabs |-> StartTime - 3600 * 1000 ]

\* C6: initializeTabTracking gives every tab of its snapshot the current time,
\* whatever record the tab had; and a scan that finds every tab's record at the
\* current time, with a positive timeout, ends without a discard call.
C6_ColdStartEvictsNothing ==
  [][ /\ (boot = "track" /\ boot' = "listen") =>
           /\ \A t \in DOMAIN host : MapHas(tabLastActive', t) /\ tabLastActive'[t] = clock
           /\ initializeTabTracking(LongAgo(host), host, 0, clock)
                = [ t \in DOMAIN host |-> clock ]
      /\ \A p \in Passes :
           ( /\ scans[p].pc = "query" /\ scans'[p] # scans[p]
             /\ settings.inactiveTimeout > 0
             /\ \A t \in DOMAIN host : MapHas(tabLastActive, t) /\ tabLastActive[t] = clock )
           => (scans'[p].pc = "done" /\ scans'[p].count = 0 /\ host' = host) ]_vars

\* Right after init, with no event since and a background tab that no rule
\* protects, a pass has run to its end and evicted nothing.
C6_Witness ==
  \E p \in Passes :
    /\ boot = "ready"
    /\ settings.enabled
    /\ seen = <<>> /\ lastId = Cardinality(DOMAIN host)
    /\ scans[p].pc = "done" /\ scans[p].count = 0
    /\ \A t \in DOMAIN host : MapHas(tabLastActive, t) /\ tabLastActive[t] = clock
    /\ \E t \in DOMAIN host : ~Protected(host[t], settings)

\* This step of pass p starts tracking tab t (lines 321-325).
StartsTracking(p, t) ==
  ScanRuns(p) /\ ~MapHas(tabLastActive, t) /\ MapHas(tabLastActive', t)

\* C7 as stated: an untracked tab met by a scan gets the synthesized timestamp
\* and a discard call in that same pass.
C7_UntrackedEvictedSamePass ==
  [][ \A p \in Passes : \A t \in Tabs :
        StartsTracking(p, t) =>
          /\ tabLastActive'[t] = PassNow(p) - (PassTimeout(p) + 1000)
          /\ ScanIssues(p, t) ]_vars

\* C7 as amended: an untracked tab met by a scan gets the synthesized
\* timestamp, and in that same step of the pass either a discard call is
\* issued for it or the pass ends at the floor check.
C7_UntrackedEvictedOrFloor ==
  [][ \A p \in Passes : \A t \in Tabs :
        StartsTracking(p, t) =>
          /\ tabLastActive'[t] = PassNow(p) - (PassTimeout(p) + 1000)
          /\ \/ ScanIssues(p, t)
             \/ /\ scans'[p].pc = "done"
                /\ PassLive(p) - scans'[p].count <= settings.minTabs ]_vars

\* A pass found an open tab it had no record of, stamped it and asked the
\* host to discard it.
C7_Witness ==
  \E p \in Passes : \E t \in DOMAIN host :
    /\ scans[p].pc = "discard"
    /\ scans[p].at = t
    /\ ~MapHas(seen, t)
    /\ MapHas(tabLastActive, t)
    /\ tabLastActive[t] = scans[p].now - (scans[p].timeoutMs + 1000)

\* C5: a scheduled pass that starts while settings.enabled is false returns 0
\* at once: no tab query, no discard call, and the map, the settings, the
\* store, the timer and the tabs are as they were.
C5_DisabledPassDoesNothing ==
  [][ \A p \in Passes :
        (scans[p].pc = "idle" /\ scans'[p].pc # "idle" /\ ~settings.enabled) =>
          /\ scans'[p].pc = "done"
          /\ scans'[p].count = 0
          /\ scans'[p].oks = 0
          /\ UNCHANGED << host, tabLastActive, settings, store, changes,
                          checkIntervalId, timers, force, save, stats >> ]_vars

\* With the scan switched off and the timer live, a pass has just returned 0
\* although a background tab is open that no rule protects.
C5_Witness ==
  \E p \in Passes :
    /\ ~settings.enabled
    /\ DOMAIN timers # {}
    /\ scans[p].pc = "done" /\ scans[p].count = 0
    /\ \E t \in DOMAIN host : ~Protected(host[t], settings)

\* C9: the save-settings command merges the update into the cached settings
\* (the fields it does not name keep their values), hands the merged record to
\* the store, which holds it once written, restarts the timer with the merged
\* record's checkInterval and answers success; and once a store notification
\* is handled the cache is the notified record and the timer has its interval.
C9_SaveMergesPersistsRestarts ==
  [][ /\ (save.pc = "idle" /\ save'.pc = "set") =>
           /\ \E u \in Updates :
                \A k \in SettingKeys :
                  settings'[k] = IF k \in DOMAIN u THEN u[k] ELSE settings[k]
           /\ save'.value = << settings' >>
      /\ (save.pc = "set" /\ save'.pc = "written") => store' = save.value
      /\ (save.pc = "written" /\ save'.pc = "done") =>
           /\ checkIntervalId' \in DOMAIN timers'
           /\ DOMAIN timers' = { checkIntervalId' }
           /\ timers'[checkIntervalId'] = save.value[1].checkInterval * 1000
      /\ (changes # <<>> /\ changes' = Tail(changes)) =>
           /\ settings' = Head(changes)
           /\ DOMAIN timers' = { checkIntervalId' }
           /\ timers'[checkIntervalId'] = Head(changes).checkInterval * 1000 ]_vars

\* C10: the get-stats command changes nothing but its own answer, which is
\* total = the tabs of the snapshot, discarded = those discarded,
\* active = total - discarded >= 0, enabled = the cached settings.enabled.
C10_StatsPureAndExact ==
  [][ stats' # stats =>
        /\ UNCHANGED << clock, host, tabLastActive, settings, store, changes,
                        checkIntervalId, timers, lastId, seen, boot, scans,
                        force, save >>
        /\ stats'.pc = "done" =>
             /\ stats'.total = Cardinality(DOMAIN host)
             /\ stats'.discarded
                  = Cardinality({ t \in DOMAIN host : host[t].discarded })
             /\ stats'.active = stats'.total - stats'.discarded
             /\ stats'.total = stats'.active + stats'.discarded
             /\ stats'.active >= 0
             /\ stats'.enabled = settings.enabled ]_vars

\* The answer to get-stats counts a discarded tab among two tabs of which one
\* has the focus, with the scan switched off.
C10_Witness ==
  /\ stats.pc = "done"
  /\ stats.total >= 2
  /\ stats.discarded >= 1
  /\ stats.active >= 1
  /\ ~stats.enabled

\* The tabs of the snapshot after tab j that no rule protects and whose
\* record in m, if there is one, is further back than the timeout.
Ahead(tabs, j, m, s, now, timeoutMs) ==
  { t \in DOMAIN tabs :
      /\ Earlier(tabs, j, t)
      /\ ~Protected(tabs[t], s)
      /\ MapHas(m, t) => now - m[t] > timeoutMs }

PastIdle(h, m, s, now) == Ahead(h, 0, m, s, now, s.inactiveTimeout * 1000)

\* The count pass q is heading for when every call is fulfilled: the count it
\* has returned, or its count so far plus the tab in hand and the candidates
\* ahead, as far as the floor allows.
Outlook(q, m, s) ==
  IF q.pc = "done" THEN q.count
  ELSE q.count
         + Min(1 + Cardinality(Ahead(q.tabs, q.at, m, s, q.now, q.timeoutMs)),
               Max(0, q.live - q.count - s.minTabs))

\* C8: in a pass on its own whose discard calls are all fulfilled, the number
\* returned is min(C, max(0, P - minTabs)), C the tabs of the snapshot that no
\* rule protects and whose record (read, or synthesized for a tab without one)
\* is further back than the timeout, P the tabs of the snapshot not discarded;
\* with timeout 30, minTabs 1, one focused tab and three others idle 40 s it is 3.
\* The pass is followed from await to await: when the snapshot is taken the
\* pass is heading for that number, every fulfilled call leaves it heading
\* for the same number, and at the return it is the count.
C8_AloneCountClosedForm ==
  [][ \A p \in Passes :
        /\ (scans[p].pc = "query" /\ scans'[p] # scans[p]) =>
             LET C == Cardinality(PastIdle(host, tabLastActive, settings, clock))
                 P == Cardinality({ t \in DOMAIN host : ~host[t].discarded })
                 n == Outlook(scans'[p], tabLastActive', settings)
             IN  /\ n = Min(C, Max(0, P - settings.minTabs))
                 /\ ( /\ settings.inactiveTimeout = 30 /\ settings.minTabs = 1
                      /\ DOMAIN host = 1..4
                      /\ \A t \in 2..4 :
                           /\ ~Protected(host[t], settings)
                           /\ MapHas(tabLastActive, t)
                           /\ clock - tabLastActive[t] = 40 * 1000 )
                    => n = 3
        /\ (scans[p].pc = "discard" /\ scans'[p] # scans[p]) =>
             /\ Outlook(scans'[p], tabLastActive', settings)
                  = Outlook(scans[p], tabLastActive, settings)
             /\ scans'[p].pc = "done" => scans'[p].count = scans[p].count + 1 ]_vars

\* The pass of the example has made its three calls, one await after the
\* other, and returned 3: timeout 30, minTabs 1, the focused tab and three tabs
\* with records 40 s back, all three now discarded.
C8_Witness ==
  \E p \in Passes :
    /\ scans[p].pc = "done" /\ scans[p].count = 3 /\ scans[p].oks = 3
    /\ settings.inactiveTimeout = 30 /\ settings.minTabs = 1
    /\ DOMAIN host = 1..4
    /\ host[1].active /\ ~host[1].discarded
    /\ \A t \in 2..4 :
         /\ host[t].discarded
         /\ MapHas(tabLastActive, t)
         /\ clock - tabLastActive[t] = 40 * 1000

\* C11: at most one interval timer is live and checkIntervalId is its handle:
\* before init starts the timer there is none, from then on there is exactly
\* the one checkIntervalId names, whatever saves and notifications came.
C11_SingleTimer ==
  /\ Cardinality(DOMAIN timers) <= 1
  /\ boot # "ready" => (DOMAIN timers = {} /\ checkIntervalId = 0)
  /\ boot = "ready" => DOMAIN timers = { checkIntervalId }

\* The timer has been started by init, restarted by a save that changed the
\* interval and restarted again by that save's notification.
C11_Witness ==
  /\ boot = "ready"
  /\ save.pc = "idle" /\ changes = <<>> /\ store # <<>>
  /\ settings.checkInterval = 10
  /\ DOMAIN timers = { checkIntervalId }
  /\ timers[checkIntervalId] = 10 * 1000

\* C12: at no point are two passes of the scheduled scan in progress, one
\* suspended at an await while the other has started.
C12_ScansNeverOverlap ==
  Cardinality({ p \in Passes : scans[p].pc \in {"query", "discard"} }) <= 1

\* The discard call for tab a that this step settles was rejected: the tab is
\* gone, or it was neither focused nor discarded and is not discarded now.
DiscardFailed(a) ==
  \/ a \notin DOMAIN host
  \/ ~host[a].active /\ ~host[a].discarded /\ ~host'[a].discarded

\* The tab of S that the enumeration of the snapshot meets first.
First(tabs, S) == CHOOSE x \in S : \A y \in S : tabs[x].index <= tabs[y].index

\* The tabs of pass q's snapshot after the one in hand that no rule protects
\* and whose record, if there is one, is further back than the timeout.
ScanCandidates(q) ==
  { t \in DOMAIN q.tabs :
      /\ Earlier(q.tabs, q.at, t)
      /\ ~Protected(q.tabs[t], settings)
      /\ MapHas(tabLastActive, t) => q.now - tabLastActive[t] > q.timeoutMs }

ForceCandidates ==
  { t \in DOMAIN force.tabs :
      Earlier(force.tabs, force.at, t) /\ ~Protected(force.tabs[t], settings) }

\* C13: a rejected discard call does not end the pass, in the scan and in the
\* manual trigger alike: the count goes up by one exactly when the call was
\* fulfilled, so the number returned is the number of fulfilled calls; the
\* next call is for a tab further on in the enumeration, never the same one; and after a rejection
\* the scan calls for its next candidate whenever the snapshot's non-discarded
\* tabs minus the fulfilled calls are above minTabs.
C13_FailedDiscardNonFatal ==
  [][ /\ \A p \in Passes :
           (scans[p].pc = "discard" /\ scans'[p] # scans[p]) =>
             LET q == scans[p]
                 K == ScanCandidates(q)
             IN  /\ scans'[p].count
                      = IF DiscardFailed(q.at) THEN q.count ELSE q.count + 1
                 /\ scans'[p].pc = "discard" =>
                      (scans'[p].at \in DOMAIN q.tabs /\ Earlier(q.tabs, q.at, scans'[p].at))
                 /\ scans'[p].pc = "done" => scans'[p].count = scans'[p].oks
                 /\ DiscardFailed(q.at) =>
                      IF K # {} /\ q.live - q.count > settings.minTabs
                      THEN scans'[p].pc = "discard" /\ scans'[p].at = First(q.tabs, K)
                      ELSE scans'[p].pc = "done"
      /\ (force.pc = "discard" /\ force' # force) =>
           /\ force'.count
                = IF DiscardFailed(force.at) THEN force.count ELSE force.count + 1
           /\ force'.pc = "discard" =>
                (force'.at \in DOMAIN force.tabs /\ Earlier(force.tabs, force.at, force'.at))
           /\ force'.pc = "done" => force'.count = force'.oks
           /\ DiscardFailed(force.at) =>
                IF ForceCandidates # {}
                THEN force'.pc = "discard" /\ force'.at = First(force.tabs, ForceCandidates)
                ELSE force'.pc = "done" ]_vars

\* A scan whose call for tab 2 was rejected has gone on to call for tab 3
\* with nothing counted, and the manual trigger has returned 1 with tab 2
\* still not discarded.
C13_Witness ==
  /\ \E p \in Passes :
       /\ scans[p].pc = "discard" /\ scans[p].at = 3 /\ scans[p].count = 0
       /\ host[2].index < host[3].index
       /\ ~host[2].discarded /\ ~host[2].active
       /\ MapHas(tabLastActive, 2)
       /\ scans[p].now - tabLastActive[2] > scans[p].timeoutMs
  /\ force.pc = "done" /\ force.count = 1 /\ force.oks = 1
  /\ ~host[2].discarded /\ host[3].discarded

\* C14: the tabs a pass on its own evicts, every call fulfilled, are the first
\* ones, in the order of the enumeration, of the tabs that no rule protects
\* and that are idle past the timeout; and when some of those are left, the
\* pass ended at the floor: the snapshot's non-discarded tabs minus the
\* evicted ones are at or below minTabs, and no later tab was evicted.
\* The pass is followed from await to await: a fulfilled call evicts the tab in
\* hand and no other; the next call is for the first candidate ahead for as
\* long as there is one and the floor is not reached; otherwise the pass ends.
C14_EvictsPrefixUpToFloor ==
  [][ \A p \in Passes :
        (scans[p].pc \in {"query", "discard"} /\ scans'[p] # scans[p]) =>
          LET q == scans[p]
              first == q.pc = "query"
              K == IF first THEN PastIdle(host, tabLastActive, settings, clock)
                   ELSE Ahead(q.tabs, q.at, tabLastActive, settings, q.now, q.timeoutMs)
              snap == IF first THEN host ELSE q.tabs
              P == IF first THEN Cardinality({ t \in DOMAIN host : ~host[t].discarded })
                   ELSE q.live
              n == scans'[p].count
          IN  /\ first => (n = 0 /\ host' = host)
              /\ ~first =>
                   /\ n = q.count + 1
                   /\ ~host[q.at].discarded /\ host'[q.at].discarded
                   /\ \A t \in DOMAIN host : t # q.at => host'[t] = host[t]
              /\ IF K # {} /\ P - n > settings.minTabs
                 THEN scans'[p].pc = "discard" /\ scans'[p].at = First(snap, K)
                 ELSE scans'[p].pc = "done"
              /\ (scans'[p].pc = "done" /\ K # {}) => P - n <= settings.minTabs ]_vars

\* With minTabs 2 and three tabs, tab 3 before tab 2 in the strip, the pass has
\* evicted tab 3 and stopped at the floor before tab 2, which is as idle and as
\* unprotected as tab 3 was.
C14_Witness ==
  \E p \in Passes :
    /\ scans[p].pc = "done" /\ scans[p].count = 1
    /\ settings.minTabs = 2
    /\ DOMAIN host = 1..3
    /\ host[3].index < host[2].index
    /\ host[3].discarded /\ ~host[2].discarded
    /\ ~Protected(host[2], settings)
    /\ MapHas(tabLastActive, 2) /\ clock - tabLastActive[2] = 40 * 1000
    /\ MapHas(tabLastActive, 3) /\ clock - tabLastActive[3] = 40 * 1000

\* C15: the scan skips a tab before its idle check exactly when shouldExclude,
\* which the manual trigger uses, returns true: on every tab and setting the
\* two tests agree, the scan calls for tab 1 exactly when shouldExclude lets
\* it through, and the manual trigger exactly when the scan's skips do.
C15_SameExclusionOnBothPaths ==
  [][ /\ \A t \in DOMAIN host :
           ScanSkips(host[t], settings) <=> shouldExclude(host[t], settings)
      /\ \A p \in Passes :
           (scans[p].pc = "query" /\ scans'[p] # scans[p]) =>
             ( (scans'[p].pc = "discard" /\ scans'[p].at = 1)
                 <=> ~shouldExclude(host[1], settings) )
      /\ (force.pc = "query" /\ force' # force) =>
           ( (force'.pc = "discard" /\ force'.at = 1)
               <=> ~ScanSkips(host[1], settings) ) ]_vars

\* The scan calls for a pinned, audible tab without a url, both exclusions
\* being switched off.
C15_Witness ==
  \E p \in Passes :
    /\ scans[p].pc = "discard" /\ scans[p].at = 1
    /\ host[1].url = NoUrl /\ host[1].pinned /\ host[1].audible
    /\ ~settings.excludePinned /\ ~settings.excludeAudible

\* C16: handleTabRemoved(id) leaves the map without a record for id and with
\* every other record as it was; handling it again, or for an id that has no
\* record, changes nothing more; and the removal event of a tab does just this.
C16_RemovalDeletesOnce ==
  [][ \A t \in Tabs :
        LET m == tabLastActive
            once == handleTabRemoved(m, t)
        IN  /\ ~MapHas(once, t)
            /\ DOMAIN once = DOMAIN m \ {t}
            /\ \A u \in DOMAIN once : once[u] = m[u]
            /\ handleTabRemoved(once, t) = once
            /\ ~MapHas(m, t) => once = m
            /\ (boot = "ready" /\ t \in DOMAIN host /\ t \notin DOMAIN host')
                 => tabLastActive' = once ]_vars

\* The removal of tab 2, which had a record, has been handled: its record is
\* gone and tab 1 still has one.
C16_Witness ==
  /\ boot = "ready"
  /\ 2 \notin DOMAIN host /\ ~MapHas(tabLastActive, 2)
  /\ 1 \in DOMAIN host /\ MapHas(tabLastActive, 1)

\* C17: in every reachable state the cached settings are within the ranges of
\* the data model: inactiveTimeout > 0, checkInterval > 0, minTabs >= 0,
\* all three integers.
C17_SettingsInRange ==
  /\ settings.inactiveTimeout \in Int /\ settings.inactiveTimeout > 0
  /\ settings.checkInterval \in Int /\ settings.checkInterval > 0
  /\ settings.minTabs \in Int /\ settings.minTabs >= 0

\* C18: whenever init is over and no pass is suspended, every key of
\* tabLastActive is a tab of the host; and once the removal of a tab has been
\* handled (the tab and its record are gone), no step puts a record for that
\* tab back into the map.
C18_MapTracksOnlyExistingTabs ==
  [][ /\ (boot' = "ready" /\ InProgress' = 0) =>
           DOMAIN tabLastActive' \subseteq DOMAIN host'
      /\ \A t \in Tabs :
           (t <= lastId /\ t \notin DOMAIN host /\ ~MapHas(tabLastActive, t))
             => ~MapHas(tabLastActive', t) ]_vars

\* C19: no discard call is issued, by a scan or by the manual trigger, for a
\* tab that is discarded in the host when the call is made, however the
\* passes interleave.
C19_NoCallForDiscardedTab ==
  [][ \A t \in Tabs :
        ((\E p \in Passes : ScanIssues(p, t)) \/ ForceIssues(t))
          => ~(t \in DOMAIN host' /\ host'[t].discarded) ]_vars

\* Tab t is one the scan is there to evict: the scan is enabled, the tab is
\* open, not focused, not discarded, not otherwise protected, and the
\* non-discarded tabs are above minTabs.
Evictable(t) ==
  /\ settings.enabled
  /\ t \in DOMAIN host
  /\ ~Protected(host[t], settings)
  /\ Cardinality(NonDiscarded(host)) > settings.minTabs

\* C20: with the timer firing and every discard call fulfilled, no tab stays
\* evictable for ever: it is discarded by a scan, or it stops being evictable
\* (it gets the focus, or the non-discarded tabs fall to minTabs).
C20_IdleTabEventuallyEvicted ==
  \A t \in Tabs : []<>(~Evictable(t))

====
